---- MODULE Spec2Model ----
(***************************************************************************)
(* neon_speech/__main__.py: the speech service's bus handlers.             *)
(*                                                                         *)
(* Every bus event runs its handler on an invocation of its own, so each   *)
(* request is a process with a program counter over the lines of its       *)
(* handler.  The file transcription requests (neon.get_stt and             *)
(* neon.audio_input) share _get_stt_from_file, the module's lock and the   *)
(* streaming engine API_STT; the live utterances of the capture loop       *)
(* share _emit_utterance_to_skills with neon.audio_input.                  *)
(*                                                                         *)
(*   Spec      the file transcription requests, main()'s late creation of  *)
(*             API_STT, the lock and the streaming engine                  *)
(*   FairSpec  Spec with every arrived request's handler kept running      *)
(*   RecurSpec FairSpec with requests that keep arriving                   *)
(*   SpecMic   the microphone control handlers and the live utterances     *)
(*   SpecInject the two handlers that publish a transcribed file:          *)
(*             neon.audio_input and recognizer_loop:klat_utterance         *)
(***************************************************************************)
EXTENDS Integers, Sequences, FiniteSets, TLC

\* The most 1024-frame chunks an audio file holds.
MaxChunks == 2

\* The handler invocations in flight together: each bus event runs its
\* handler once, concurrently with the other's.
Requests == {"r1", "r2"}

VARIABLES
    pc,               \* each request's position in its handler
    msg,              \* each request's incoming message (its inputs)
    st,               \* each request's locals and what it has put on the bus
    lock,             \* the module's Lock: "free" or the request holding it
    engineOpen,       \* API_STT has been stream_start'ed and not stream_stop'ped
    API_STT,          \* the global API_STT is set (not None)
    canStream,        \* loop.consumer.stt.can_stream
    mainDone,         \* main() is past the creation of API_STT
    listener,         \* the RecognizerLoop's mute, sleep and forced state
    muteDuringOutput, \* config["listener"]["mute_during_output"]
    micStatus,        \* the last reply to mycroft.mic.get_status
    lastEvent         \* the microphone control event handled last

vars == <<pc, msg, st, lock, engineOpen, API_STT, canStream, mainDone,
          listener, muteDuringOutput, micStatus, lastEvent>>

reqVars == <<pc, msg, st, lock, engineOpen, API_STT, canStream, mainDone>>
micVars == <<listener, muteDuringOutput, micStatus, lastEvent>>

\* A message that has not arrived.
NoMsg == [kind |-> "none", file |-> "none", klat |-> FALSE,
          ident |-> "absent", rawAudio |-> FALSE,
          need |-> FALSE, shout |-> FALSE]

\* A handler's locals before its first line, and an empty record of its bus
\* traffic: replies are the replies to the requester, emitted counts the
\* utterance messages handed to bus.wait_for_response.
NoLocals == [left |-> 0, eofRaises |-> TRUE, routed |-> FALSE,
             nStart |-> 0, nStop |-> 0, sttCalls |-> 0,
             trans |-> "unset", pdata |-> "unset", ctxRaised |-> FALSE,
             msgIdent |-> "none", emitted |-> 0, handled |-> "unset",
             publishRaised |-> FALSE, replies |-> <<>>]

\* message.reply(ident, data={"error": ...})
ErrorReply(text) == [error |-> text]

\* message.reply(ident, data={"parser_data": ..., "transcripts": ...})
SttReply(s) == [parser_data |-> s.pdata, transcripts |-> s.trans]

\* message.reply(ident, data={"parser_data", "transcripts", "skills_recv"})
InputReply(s) == [parser_data |-> s.pdata, transcripts |-> s.trans,
                  skills_recv |-> (s.handled = "acked")]

\* bus.emit of a reply to the requester of r.
Emit(s, reply) == [s EXCEPT !.replies = Append(@, reply)]

\* The module's globals after import, config loaded by main(), and the
\* listener as RecognizerLoop(config) creates it.
Init ==
    /\ pc = [r \in Requests |-> "idle"]
    /\ msg = [r \in Requests |-> NoMsg]
    /\ st = [r \in Requests |-> NoLocals]
    /\ lock = "free"
    /\ engineOpen = FALSE
    /\ API_STT = FALSE
    /\ canStream \in BOOLEAN
    /\ mainDone = FALSE
    /\ listener = [muted |-> FALSE, sleeping |-> FALSE, forced |-> FALSE]
    /\ muteDuringOutput \in BOOLEAN
    /\ micStatus = "none"
    /\ lastEvent = "none"

\* Where an exception raised in the body of r's handler lands: the
\* try/except of handle_get_stt and of handle_audio_input catches it, as
\* does the try around handle_input_from_klat's transcription;
\* handle_utterance has none.
Landing(r) ==
    CASE msg[r].kind = "utterance" -> "raised"
      [] msg[r].kind = "klat" -> "klat_except"
      [] OTHER -> "except"

-----------------------------------------------------------------------------
(* main()                                                                  *)

\* main(): once the loop's consumer has its stt, a streaming stt gets a
\* second instance for the API.  The handlers are registered before.
MainCreateApiStt ==
    /\ ~mainDone
    /\ mainDone' = TRUE
    /\ API_STT' = canStream
    /\ UNCHANGED <<pc, msg, st, lock, engineOpen, canStream>>
    /\ UNCHANGED micVars

-----------------------------------------------------------------------------
(* handle_get_stt                                                          *)

\* bus.on("neon.get_stt", handle_get_stt): a request arrives; its
\* audio_file is absent, names no file, or names a file.
ArriveGetStt(r) ==
    /\ pc[r] = "idle"
    /\ \E f \in {"none", "missing", "valid"} :
          msg' = [msg EXCEPT ![r] = [NoMsg EXCEPT !.kind = "get_stt", !.file = f]]
    /\ pc' = [pc EXCEPT ![r] = "gs_args"]
    /\ UNCHANGED <<st, lock, engineOpen, API_STT, canStream, mainDone>>
    /\ UNCHANGED micVars

\* if not wav_file_path: emit the error reply (and go on).
GsCheckArg(r) ==
    /\ pc[r] = "gs_args"
    /\ st' = [st EXCEPT ![r] =
                IF msg[r].file = "none"
                THEN Emit(@, ErrorReply("audio_file not specified!"))
                ELSE @]
    /\ pc' = [pc EXCEPT ![r] = "gs_isfile"]
    /\ UNCHANGED <<msg, lock, engineOpen, API_STT, canStream, mainDone>>
    /\ UNCHANGED micVars

\* if not os.path.isfile(wav_file_path): emit the error reply (and go on).
\* os.path.isfile(None) raises TypeError, outside the handler's try.
GsIsFile(r) ==
    /\ pc[r] = "gs_isfile"
    /\ IF msg[r].file = "none"
       THEN /\ pc' = [pc EXCEPT ![r] = "raised"]
            /\ st' = st
       ELSE /\ pc' = [pc EXCEPT ![r] = "decode"]
            /\ st' = [st EXCEPT ![r] =
                        IF msg[r].file = "missing"
                        THEN Emit(@, ErrorReply("Not found!"))
                        ELSE @]
    /\ UNCHANGED <<msg, lock, engineOpen, API_STT, canStream, mainDone>>
    /\ UNCHANGED micVars

\* bus.emit(message.reply(ident, data={"parser_data", "transcripts"}))
GsReply(r) ==
    /\ pc[r] = "gs_reply"
    /\ st' = [st EXCEPT ![r] = Emit(@, SttReply(@))]
    /\ pc' = [pc EXCEPT ![r] = "done"]
    /\ UNCHANGED <<msg, lock, engineOpen, API_STT, canStream, mainDone>>
    /\ UNCHANGED micVars

\* except Exception as e: bus.emit(message.reply(ident, {"error": repr(e)}))
\* of handle_get_stt and of handle_audio_input.
Except(r) ==
    /\ pc[r] = "except"
    /\ st' = [st EXCEPT ![r] = Emit(@, ErrorReply("repr(e)"))]
    /\ pc' = [pc EXCEPT ![r] = "done"]
    /\ UNCHANGED <<msg, lock, engineOpen, API_STT, canStream, mainDone>>
    /\ UNCHANGED micVars

-----------------------------------------------------------------------------
(* _get_stt_from_file                                                      *)

\* segment = AudioSegment.from_file(wav_file); AudioData(...): raises for
\* no path and for a path that names no file, and may raise for a file
\* (malformed audio).
Decode(r) ==
    /\ pc[r] = "decode"
    /\ st' = [st EXCEPT ![r].sttCalls = @ + 1]
    /\ \E ok \in (IF msg[r].file = "valid" THEN BOOLEAN ELSE {FALSE}) :
          pc' = [pc EXCEPT ![r] = IF ok THEN "route" ELSE Landing(r)]
    /\ UNCHANGED <<msg, lock, engineOpen, API_STT, canStream, mainDone>>
    /\ UNCHANGED micVars

\* if API_STT: audio_stream = get_audio_file_stream(wav_file): a stream of
\* at most MaxChunks chunks that signals its end by raising EOFError or by
\* an empty read.  else: the batch engine.
Route(r) ==
    /\ pc[r] = "route"
    /\ IF API_STT
       THEN /\ \E n \in 0..MaxChunks, e \in BOOLEAN :
                 st' = [st EXCEPT ![r].left = n, ![r].eofRaises = e,
                                  ![r].routed = TRUE]
            /\ pc' = [pc EXCEPT ![r] = "lock_wait"]
       ELSE /\ st' = st
            /\ pc' = [pc EXCEPT ![r] = "batch"]
    /\ UNCHANGED <<msg, lock, engineOpen, API_STT, canStream, mainDone>>
    /\ UNCHANGED micVars

\* The lock entered without waiting for it.
LockNotChecked(r) == TRUE

\* with lock: blocks until the lock is free.
LockFree(r) == lock = "free"

\* with lock: (entry)
Acquire(r) ==
    /\ pc[r] = "lock_wait"
    /\ LockFree(r)
    /\ lock' = r
    /\ pc' = [pc EXCEPT ![r] = "start"]
    /\ UNCHANGED <<msg, st, engineOpen, API_STT, canStream, mainDone>>
    /\ UNCHANGED micVars

\* The lock kept by the request that leaves the with block.
UnwindKeeps(r) == lock

\* The lock after the with block is left, at its end or by an exception.
Unwind(r) == IF lock = r THEN "free" ELSE lock

\* API_STT.stream_start(lang): opens the engine, or raises.
StreamStart(r) ==
    /\ pc[r] = "start"
    /\ \E ok \in BOOLEAN :
          IF ok
          THEN /\ engineOpen' = TRUE
               /\ st' = [st EXCEPT ![r].nStart = @ + 1]
               /\ pc' = [pc EXCEPT ![r] = "read"]
               /\ lock' = lock
          ELSE /\ engineOpen' = engineOpen
               /\ st' = st
               /\ pc' = [pc EXCEPT ![r] = Landing(r)]
               /\ lock' = Unwind(r)
    /\ UNCHANGED <<msg, API_STT, canStream, mainDone>>
    /\ UNCHANGED micVars

\* data = audio_stream.read(1024): the next chunk; at the end of the data
\* EOFError (break) or an empty chunk; or an error other than EOFError.
Read(r) ==
    /\ pc[r] = "read"
    /\ \E ok \in BOOLEAN :
          IF ~ok
          THEN /\ pc' = [pc EXCEPT ![r] = Landing(r)]
               /\ st' = st
               /\ lock' = Unwind(r)
          ELSE /\ lock' = lock
               /\ IF st[r].left > 0
                  THEN /\ st' = [st EXCEPT ![r].left = @ - 1]
                       /\ pc' = [pc EXCEPT ![r] = "feed"]
                  ELSE /\ st' = st
                       /\ pc' = [pc EXCEPT ![r] =
                                   IF st[r].eofRaises THEN "stop" ELSE "feed"]
    /\ UNCHANGED <<msg, engineOpen, API_STT, canStream, mainDone>>
    /\ UNCHANGED micVars

\* API_STT.stream_data(data): feeds the chunk, or raises; then the loop's
\* next turn.
Feed(r) ==
    /\ pc[r] = "feed"
    /\ \E ok \in BOOLEAN :
          IF ok
          THEN /\ pc' = [pc EXCEPT ![r] = "read"]
               /\ lock' = lock
          ELSE /\ pc' = [pc EXCEPT ![r] = Landing(r)]
               /\ lock' = Unwind(r)
    /\ UNCHANGED <<msg, st, engineOpen, API_STT, canStream, mainDone>>
    /\ UNCHANGED micVars

\* transcriptions = API_STT.stream_stop(), and the end of the with block.
StreamStop(r) ==
    /\ pc[r] = "stop"
    /\ engineOpen' = FALSE
    /\ \E t \in {"ok", "empty"} :
          st' = [st EXCEPT ![r].nStop = @ + 1, ![r].trans = t]
    /\ lock' = Unwind(r)
    /\ pc' = [pc EXCEPT ![r] = "ctx"]
    /\ UNCHANGED <<msg, API_STT, canStream, mainDone>>
    /\ UNCHANGED micVars

\* transcriptions = loop.consumer.transcribe(audio_data, lang), or raises.
Batch(r) ==
    /\ pc[r] = "batch"
    /\ \E t \in {"ok", "empty", "raise"} :
          IF t = "raise"
          THEN /\ st' = st
               /\ pc' = [pc EXCEPT ![r] = Landing(r)]
          ELSE /\ st' = [st EXCEPT ![r].trans = t]
               /\ pc' = [pc EXCEPT ![r] = "ctx"]
    /\ UNCHANGED <<msg, lock, engineOpen, API_STT, canStream, mainDone>>
    /\ UNCHANGED micVars

\* _get_stt_from_file returning to handle_audio_input's reply, past the
\* publication.
CallerRepliesFirst(r) ==
    CASE msg[r].kind = "get_stt" -> "gs_reply"
      [] msg[r].kind = "klat" -> "klat_stt"
      [] OTHER -> "ai_reply"

\* Where _get_stt_from_file returns to.
Caller(r) ==
    CASE msg[r].kind = "get_stt" -> "gs_reply"
      [] msg[r].kind = "klat" -> "klat_stt"
      [] OTHER -> "ai_build"

\* audio, audio_context = ...audio_consumers.get_context(audio_data);
\* return audio, audio_context, transcriptions.  The extractor may raise.
GetContext(r) ==
    /\ pc[r] = "ctx"
    /\ \E ok \in BOOLEAN :
          IF ok
          THEN /\ st' = [st EXCEPT ![r].pdata = "context"]
               /\ pc' = [pc EXCEPT ![r] = Caller(r)]
          ELSE /\ st' = [st EXCEPT ![r].ctxRaised = TRUE]
               /\ pc' = [pc EXCEPT ![r] = Landing(r)]
    /\ UNCHANGED <<msg, lock, engineOpen, API_STT, canStream, mainDone>>
    /\ UNCHANGED micVars

-----------------------------------------------------------------------------
(* handle_audio_input                                                      *)

\* bus.on("neon.audio_input", handle_audio_input): a request arrives, with
\* or without klat_data and an ident in its context, and enters the try.
ArriveAudioInput(r) ==
    /\ pc[r] = "idle"
    /\ \E f \in {"none", "missing", "valid"}, k \in BOOLEAN,
          i \in {"absent", "context"} :
          msg' = [msg EXCEPT ![r] = [NoMsg EXCEPT !.kind = "audio_input",
                                      !.file = f, !.klat = k, !.ident = i]]
    /\ pc' = [pc EXCEPT ![r] = "decode"]
    /\ UNCHANGED <<st, lock, engineOpen, API_STT, canStream, mainDone>>
    /\ UNCHANGED micVars

\* build_context(msg): "ident": msg.context.get("ident", time.time()); with
\* klat_data in the context, msg.context("klat_data") calls a dict and
\* raises TypeError.  Then the utterance's data, and the call of
\* _emit_utterance_to_skills.
AiBuild(r) ==
    /\ pc[r] = "ai_build"
    /\ IF msg[r].klat
       THEN /\ st' = st
            /\ pc' = [pc EXCEPT ![r] = Landing(r)]
       ELSE /\ st' = [st EXCEPT ![r].msgIdent =
                        IF msg[r].ident = "context" THEN "given" ELSE "fresh"]
            /\ pc' = [pc EXCEPT ![r] = "emit"]
    /\ UNCHANGED <<msg, lock, engineOpen, API_STT, canStream, mainDone>>
    /\ UNCHANGED micVars

\* bus.emit(message.reply(ident, data={"parser_data", "transcripts",
\* "skills_recv": handled}))
AiReply(r) ==
    /\ pc[r] = "ai_reply"
    /\ st' = [st EXCEPT ![r] = Emit(@, InputReply(@))]
    /\ pc' = [pc EXCEPT ![r] = "done"]
    /\ UNCHANGED <<msg, lock, engineOpen, API_STT, canStream, mainDone>>
    /\ UNCHANGED micVars

-----------------------------------------------------------------------------
(* handle_input_from_klat                                                  *)

\* bus.on('recognizer_loop:klat_utterance', handle_input_from_klat): a chat
\* input arrives, with or without raw_audio (a path that may name no
\* file), need_transcription and shout_text.
ArriveKlat(r) ==
    /\ pc[r] = "idle"
    /\ \E f \in {"none", "missing", "valid"}, n \in BOOLEAN, t \in BOOLEAN :
          msg' = [msg EXCEPT ![r] = [NoMsg EXCEPT !.kind = "klat", !.file = f,
                                      !.need = n, !.shout = t]]
    /\ pc' = [pc EXCEPT ![r] = "klat_profile"]
    /\ UNCHANGED <<st, lock, engineOpen, API_STT, canStream, mainDone>>
    /\ UNCHANGED micVars

\* The chat user's profile, request_id, nick_profiles, client and
\* ident = time.time(): the lookups in chat_user_database may raise, and
\* nothing catches it.
KlatProfile(r) ==
    /\ pc[r] = "klat_profile"
    /\ \E ok \in BOOLEAN :
          pc' = [pc EXCEPT ![r] = IF ok THEN "klat_branch" ELSE "raised"]
    /\ UNCHANGED <<msg, st, lock, engineOpen, API_STT, canStream, mainDone>>
    /\ UNCHANGED micVars

\* transcriptions = [message.data.get("shout_text")]: the text of the
\* chat, or a list that holds None.
ShoutText(r) == IF msg[r].shout THEN "shout" ELSE "null"

\* if audio_file: try _get_stt_from_file; elif need_transcription: return;
\* else: audio_context = None, transcriptions = [shout_text].
KlatBranch(r) ==
    /\ pc[r] = "klat_branch"
    /\ IF msg[r].file # "none"
       THEN /\ pc' = [pc EXCEPT ![r] = "decode"]
            /\ st' = st
       ELSE IF msg[r].need
       THEN /\ pc' = [pc EXCEPT ![r] = "done"]
            /\ st' = st
       ELSE /\ pc' = [pc EXCEPT ![r] = "klat_check"]
            /\ st' = [st EXCEPT ![r].trans = ShoutText(r),
                                ![r].pdata = "none"]
    /\ UNCHANGED <<msg, lock, engineOpen, API_STT, canStream, mainDone>>
    /\ UNCHANGED micVars

\* if need_transcription: bus.emit(Message("css.emit", {"data":
\* [transcriptions[0], request_id]})): the first transcript goes back to
\* the server; an empty or null result has none and raises, inside the try.
KlatAfterStt(r) ==
    /\ pc[r] = "klat_stt"
    /\ IF msg[r].need
       THEN IF st[r].trans = "empty"
            THEN /\ pc' = [pc EXCEPT ![r] = Landing(r)]
                 /\ st' = st
            ELSE /\ pc' = [pc EXCEPT ![r] = "klat_check"]
                 /\ st' = [st EXCEPT ![r] = Emit(@, [css |-> @.trans])]
       ELSE /\ pc' = [pc EXCEPT ![r] = "klat_check"]
            /\ st' = st
    /\ UNCHANGED <<msg, lock, engineOpen, API_STT, canStream, mainDone>>
    /\ UNCHANGED micVars

\* except Exception as x: transcriptions = [shout_text];
\* audio_context = None
KlatExcept(r) ==
    /\ pc[r] = "klat_except"
    /\ st' = [st EXCEPT ![r].trans = ShoutText(r), ![r].pdata = "none"]
    /\ pc' = [pc EXCEPT ![r] = "klat_check"]
    /\ UNCHANGED <<msg, lock, engineOpen, API_STT, canStream, mainDone>>
    /\ UNCHANGED micVars

\* if not transcriptions: return ("Null Transcription!"): an empty list or
\* None stops here, a list that holds None does not.  Then data, the
\* context with "ident": ident, and the call of _emit_utterance_to_skills.
KlatCheck(r) ==
    /\ pc[r] = "klat_check"
    /\ IF st[r].trans = "empty"
       THEN /\ pc' = [pc EXCEPT ![r] = "done"]
            /\ st' = st
       ELSE /\ pc' = [pc EXCEPT ![r] = "emit"]
            /\ st' = [st EXCEPT ![r].msgIdent = "fresh"]
    /\ UNCHANGED <<msg, lock, engineOpen, API_STT, canStream, mainDone>>
    /\ UNCHANGED micVars

-----------------------------------------------------------------------------
(* handle_utterance and _emit_utterance_to_skills                          *)

\* loop.on('recognizer_loop:utterance', handle_utterance): the capture loop
\* hands over an utterance; its ident is in the event, in the event's data,
\* or nowhere.
ArriveUtterance(r) ==
    /\ pc[r] = "idle"
    /\ \E i \in {"absent", "event", "data"}, a \in BOOLEAN :
          msg' = [msg EXCEPT ![r] = [NoMsg EXCEPT !.kind = "utterance",
                                      !.ident = i, !.rawAudio = a]]
    /\ pc' = [pc EXCEPT ![r] = "hu"]
    /\ UNCHANGED <<st, lock, engineOpen, API_STT, canStream, mainDone>>
    /\ UNCHANGED micVars

\* handle_utterance: event.pop('raw_audio') raises KeyError without one;
\* the context gets an ident from the data merged in or from the event, and
\* none otherwise.  Then the call of _emit_utterance_to_skills.
HandleUtterance(r) ==
    /\ pc[r] = "hu"
    /\ IF ~msg[r].rawAudio
       THEN /\ st' = st
            /\ pc' = [pc EXCEPT ![r] = Landing(r)]
       ELSE /\ st' = [st EXCEPT ![r].msgIdent =
                        IF msg[r].ident = "absent" THEN "none" ELSE "given"]
            /\ pc' = [pc EXCEPT ![r] = "emit"]
    /\ UNCHANGED <<msg, lock, engineOpen, API_STT, canStream, mainDone>>
    /\ UNCHANGED micVars

\* ident = message_to_emit.context['ident']: KeyError without one.
HasIdent(s) == s.msgIdent # "none"

\* _emit_utterance_to_skills, to the sending of bus.wait_for_response: the
\* ident is looked up, then the message is put on the bus.
EmitToSkills(r) ==
    /\ pc[r] = "emit"
    /\ IF HasIdent(st[r])
       THEN /\ st' = [st EXCEPT ![r].emitted = @ + 1]
            /\ pc' = [pc EXCEPT ![r] = "ack_wait"]
       ELSE /\ st' = [st EXCEPT ![r].publishRaised = TRUE]
            /\ pc' = [pc EXCEPT ![r] = Landing(r)]
    /\ UNCHANGED <<msg, lock, engineOpen, API_STT, canStream, mainDone>>
    /\ UNCHANGED micVars

\* Where _emit_utterance_to_skills returns to.
EmitCaller(r) == IF msg[r].kind = "audio_input" THEN "ai_reply" ELSE "done"

\* resp = bus.wait_for_response(message_to_emit, timeout=10): a response
\* within the timeout, or None; return True, or log and return False.
AckWait(r) ==
    /\ pc[r] = "ack_wait"
    /\ \E h \in {"acked", "timeout"} : st' = [st EXCEPT ![r].handled = h]
    /\ pc' = [pc EXCEPT ![r] = EmitCaller(r)]
    /\ UNCHANGED <<msg, lock, engineOpen, API_STT, canStream, mainDone>>
    /\ UNCHANGED micVars

-----------------------------------------------------------------------------
(* The listener (neon_speech.listener.RecognizerLoop) and its handlers     *)

\* loop.mute()
LoopMute(l) == [l EXCEPT !.muted = TRUE, !.forced = FALSE]

\* loop.unmute()
LoopUnmute(l) == [l EXCEPT !.muted = FALSE]

\* loop.force_unmute()
LoopForceUnmute(l) == [l EXCEPT !.muted = FALSE, !.forced = TRUE]

\* loop.sleep()
LoopSleep(l) == [l EXCEPT !.sleeping = TRUE]

\* loop.awaken()
LoopAwaken(l) == [l EXCEPT !.sleeping = FALSE]

\* loop.is_muted()
IsMuted(l) == l.muted

\* handle_mic_mute
HandleMicMute(l) == LoopMute(l)

\* The unmute handler calling loop.mute().
HandleMicUnmuteMutes(l) == LoopMute(l)

\* handle_mic_unmute
HandleMicUnmute(l) == LoopUnmute(l)

\* The stop handler leaving the listener as it is.
HandleStopIgnored(l) == l

\* handle_stop
HandleStop(l) == LoopForceUnmute(l)

\* handle_sleep
HandleSleep(l) == LoopSleep(l)

\* handle_wake_up
HandleWakeUp(l) == LoopAwaken(l)

\* The audio start handler muting whatever the configuration says.
HandleAudioStartAlways(l, flag) == LoopMute(l)

\* handle_audio_start: mutes when mute_during_output is set.
HandleAudioStart(l, flag) == IF flag THEN LoopMute(l) ELSE l

\* handle_audio_end: unmutes when mute_during_output is set.
HandleAudioEnd(l, flag) == IF flag THEN LoopUnmute(l) ELSE l

\* bus.on('mycroft.mic.mute', handle_mic_mute)
MicMute ==
    /\ listener' = HandleMicMute(listener)
    /\ UNCHANGED <<muteDuringOutput, micStatus>>
    /\ lastEvent' = "mic.mute"
    /\ UNCHANGED reqVars

\* bus.on('mycroft.mic.unmute', handle_mic_unmute)
MicUnmute ==
    /\ listener' = HandleMicUnmute(listener)
    /\ UNCHANGED <<muteDuringOutput, micStatus>>
    /\ lastEvent' = "mic.unmute"
    /\ UNCHANGED reqVars

\* bus.on('mycroft.stop', handle_stop)
Stop ==
    /\ listener' = HandleStop(listener)
    /\ UNCHANGED <<muteDuringOutput, micStatus>>
    /\ lastEvent' = "stop"
    /\ UNCHANGED reqVars

\* bus.on('recognizer_loop:sleep', handle_sleep)
Sleep ==
    /\ listener' = HandleSleep(listener)
    /\ UNCHANGED <<muteDuringOutput, micStatus>>
    /\ lastEvent' = "sleep"
    /\ UNCHANGED reqVars

\* bus.on('recognizer_loop:wake_up', handle_wake_up)
WakeUp ==
    /\ listener' = HandleWakeUp(listener)
    /\ UNCHANGED <<muteDuringOutput, micStatus>>
    /\ lastEvent' = "wake_up"
    /\ UNCHANGED reqVars

\* bus.on('recognizer_loop:audio_output_start', handle_audio_start)
AudioStart ==
    /\ listener' = HandleAudioStart(listener, muteDuringOutput)
    /\ UNCHANGED <<muteDuringOutput, micStatus>>
    /\ lastEvent' = "audio_output_start"
    /\ UNCHANGED reqVars

\* bus.on('recognizer_loop:audio_output_end', handle_audio_end)
AudioEnd ==
    /\ listener' = HandleAudioEnd(listener, muteDuringOutput)
    /\ UNCHANGED <<muteDuringOutput, micStatus>>
    /\ lastEvent' = "audio_output_end"
    /\ UNCHANGED reqVars

\* handle_mic_get_status: replies {'muted': loop.is_muted()}.
MicGetStatus ==
    /\ micStatus' = IF IsMuted(listener) THEN "muted" ELSE "unmuted"
    /\ lastEvent' = "mic.get_status"
    /\ UNCHANGED <<listener, muteDuringOutput>>
    /\ UNCHANGED reqVars

-----------------------------------------------------------------------------
(* The specifications                                                      *)

\* One line of the handler of an arrived file transcription request.
Step(r) ==
    \/ GsCheckArg(r) \/ GsIsFile(r) \/ GsReply(r) \/ Except(r)
    \/ Decode(r) \/ Route(r) \/ Acquire(r) \/ StreamStart(r) \/ Read(r)
    \/ Feed(r) \/ StreamStop(r) \/ Batch(r) \/ GetContext(r)
    \/ AiBuild(r) \/ EmitToSkills(r) \/ AckWait(r) \/ AiReply(r)

\* The handlers main() registers for neon.get_stt and neon.audio_input, run
\* concurrently, and main() itself.
Next ==
    \/ MainCreateApiStt
    \/ \E r \in Requests : ArriveGetStt(r) \/ ArriveAudioInput(r) \/ Step(r)

Spec == Init /\ [][Next]_vars

\* Every handler invocation runs on: a thread that can take its next line
\* takes it.  The lock makes no promise of its own.
FairSpec == Spec /\ \A r \in Requests : WF_vars(Step(r))

\* The invocation of r's handler has ended (returned or raised); the next
\* bus event gets an invocation of its own.
Recycle(r) ==
    /\ pc[r] \in {"done", "raised"}
    /\ pc' = [pc EXCEPT ![r] = "idle"]
    /\ msg' = [msg EXCEPT ![r] = NoMsg]
    /\ st' = [st EXCEPT ![r] = NoLocals]
    /\ UNCHANGED <<lock, engineOpen, API_STT, canStream, mainDone>>
    /\ UNCHANGED micVars

\* Requests that keep arriving: Next, and new invocations for ever.
NextRecur == Next \/ \E r \in Requests : Recycle(r)

\* The service under requests that keep arriving, every handler invocation
\* running on.  A threading.Lock that is released goes to any of the
\* threads at it: a waiting thread is not promised its turn, so the entry
\* of the lock is only weakly fair.
RecurSpec == Init /\ [][NextRecur]_vars /\ \A r \in Requests : WF_vars(Step(r))

\* The lines of the two handlers that publish a transcribed file.
StepInject(r) ==
    \/ KlatProfile(r) \/ KlatBranch(r) \/ KlatAfterStt(r) \/ KlatExcept(r)
    \/ KlatCheck(r) \/ Except(r)
    \/ Decode(r) \/ Route(r) \/ Acquire(r) \/ StreamStart(r) \/ Read(r)
    \/ Feed(r) \/ StreamStop(r) \/ Batch(r) \/ GetContext(r)
    \/ AiBuild(r) \/ EmitToSkills(r) \/ AckWait(r) \/ AiReply(r)

\* handle_input_from_klat and handle_audio_input, run concurrently, and
\* main() itself.
NextInject ==
    \/ MainCreateApiStt
    \/ \E r \in Requests : ArriveKlat(r) \/ ArriveAudioInput(r) \/ StepInject(r)

SpecInject == Init /\ [][NextInject]_vars

\* The microphone control handlers and handle_utterance.
NextMic ==
    \/ MicMute \/ MicUnmute \/ Stop \/ Sleep \/ WakeUp
    \/ AudioStart \/ AudioEnd \/ MicGetStatus
    \/ \E r \in Requests :
          ArriveUtterance(r) \/ HandleUtterance(r) \/ EmitToSkills(r) \/ AckWait(r)

SpecMic == Init /\ [][NextMic]_vars

-----------------------------------------------------------------------------
(* The streaming cycles (C1, C2)                                           *)

\* r is between its stream_start and its stream_stop.
InCycle(r) == pc[r] \in {"read", "feed", "stop"}

\* r's next line is a call of stream_start, of read and stream_data, or of
\* stream_stop.
AtEngineCall(r) == pc[r] \in {"start", "read", "feed", "stop"}

\* C1: while one request is between its stream_start and its own
\* stream_stop, no other request is at a stream_start, a stream_data or a
\* stream_stop: the cycles of concurrent requests never interleave.
C1_NoInterleavedCycles ==
    \A r1 \in Requests, r2 \in Requests :
        (r1 # r2 /\ InCycle(r1)) => ~AtEngineCall(r2)

\* C1's case: one request is feeding the engine while another, routed to
\* the same engine, waits at the lock.
C1_Witness ==
    \E r1 \in Requests, r2 \in Requests :
        /\ r1 # r2
        /\ pc[r1] = "feed" /\ st[r1].nStart = 1
        /\ pc[r2] = "lock_wait" /\ st[r2].routed

\* C2: a finished request that was routed to the streaming engine has made
\* exactly one stream_start and exactly one stream_stop.
C2_OneCyclePerRequest ==
    \A r \in Requests :
        (pc[r] = "done" /\ st[r].routed) =>
            (st[r].nStart = 1 /\ st[r].nStop = 1)

-----------------------------------------------------------------------------
(* The publish protocol (C3, C4)                                           *)

\* C3: a call of _emit_utterance_to_skills never raises, puts one message
\* on the bus and no more, and has put exactly one when it returns.
C3_PublishOnceNeverRaises ==
    \A r \in Requests :
        /\ ~st[r].publishRaised
        /\ st[r].emitted <= 1
        /\ (st[r].handled # "unset" => st[r].emitted = 1)

\* C4: a message handed to _emit_utterance_to_skills carries an ident: the
\* incoming one when there is one, a fresh one when there is none.
C4_IdentBeforeEmission ==
    \A r \in Requests :
        pc[r] = "emit" =>
            /\ HasIdent(st[r])
            /\ (msg[r].ident # "absent" => st[r].msgIdent = "given")
            /\ (msg[r].ident = "absent" => st[r].msgIdent = "fresh")

-----------------------------------------------------------------------------
(* The replies of handle_get_stt and handle_audio_input (C5 - C9)          *)

\* C5: a get-stt request for a path that names no file gets one reply, the
\* "Not found!" error, and _get_stt_from_file is not called for it.
C5_MissingFileOneErrorReply ==
    \A r \in Requests :
        (msg[r].kind = "get_stt" /\ msg[r].file = "missing") =>
            /\ st[r].sttCalls = 0
            /\ Len(st[r].replies) <= 1
            /\ (pc[r] = "done" => st[r].replies = <<ErrorReply("Not found!")>>)

\* C6: a get-stt request with no audio_file gets an error reply and its
\* handler returns: no exception leaves handle_get_stt, and
\* _get_stt_from_file is not called.
C6_NoArgumentRepliesAndReturns ==
    \A r \in Requests :
        (msg[r].kind = "get_stt" /\ msg[r].file = "none") =>
            /\ pc[r] # "raised"
            /\ st[r].sttCalls = 0
            /\ (pc[r] = "done" =>
                   st[r].replies = <<ErrorReply("audio_file not specified!")>>)

\* C7: every get-stt and audio-input request that has arrived is eventually
\* replied to.
C7_EveryRequestAnswered ==
    \A r \in Requests : (pc[r] # "idle") ~> (Len(st[r].replies) > 0)

\* C8: a request whose context extractor raised, after the engine produced
\* transcripts, is replied to with the transcripts and with no error.
C8_ContextFailureDegrades ==
    \A r \in Requests :
        (st[r].ctxRaised /\ pc[r] = "done") =>
            /\ Len(st[r].replies) = 1
            /\ "transcripts" \in DOMAIN st[r].replies[1]
            /\ "error" \notin DOMAIN st[r].replies[1]

\* C9: an audio-input request whose decode, transcription and context
\* extraction succeeded has, when its handler is done, published exactly
\* one utterance and sent exactly one reply: the transcripts with
\* skills_recv, the publish result (false after a timeout), and no error.
C9_InjectionPublishesAndReplies ==
    \A r \in Requests :
        (/\ msg[r].kind = "audio_input"
         /\ pc[r] = "done"
         /\ st[r].trans # "unset"
         /\ st[r].pdata # "unset") =>
            /\ st[r].emitted = 1
            /\ st[r].replies = <<InputReply(st[r])>>
            /\ st[r].replies[1].skills_recv = (st[r].handled = "acked")

-----------------------------------------------------------------------------
(* The microphone handlers (C10)                                           *)

-----------------------------------------------------------------------------
(* mute_during_output and the stop control (C11 - C13)                     *)

C12_FlagOffNoChange ==
    [][(~muteDuringOutput /\ (AudioStart \/ AudioEnd)) => listener' = listener]_vars

\* C12's case: with the flag off an audio output event has been handled on
\* a listener that an earlier event had muted and put to sleep.
C12_Witness ==
    /\ ~muteDuringOutput
    /\ lastEvent \in {"audio_output_start", "audio_output_end"}
    /\ IsMuted(listener)
    /\ listener.sleeping

\* C13: whatever mute requests came before, from mycroft.mic.mute and from
\* audio output starts, the listener is not muted once mycroft.stop
\* (force_unmute) has been handled, and would not be after one more of
\* each.
C13_StopOverridesMutes ==
    /\ (lastEvent = "stop" => ~IsMuted(listener))
    /\ ~IsMuted(HandleStop(HandleAudioStart(HandleMicMute(listener),
                                            muteDuringOutput)))

\* C13's case: the stop has been handled on a listener that
\* mycroft.mic.get_status had reported muted, with mute_during_output on.
C13_Witness ==
    /\ lastEvent = "stop"
    /\ micStatus = "muted"
    /\ muteDuringOutput
    /\ listener.forced

-----------------------------------------------------------------------------
(* The lock: admission, scope and release (C14, C15, C17, C18)             *)

\* C14: when the lock is released again and again, a request waiting at
\* the lock eventually holds it, whatever requests arrive and take the lock
\* meanwhile.
C14_NoStarvationAtLock ==
    \A r \in Requests :
        ([]<>(lock = "free")) => ((pc[r] = "lock_wait") ~> (lock = r))

\* C15: a request that is in _emit_utterance_to_skills, about to publish or
\* waiting for the acknowledgment, does not hold the lock.
C15_NoLockAcrossAckWait ==
    \A r \in Requests : pc[r] \in {"emit", "ack_wait"} => lock # r

\* A request waits for its acknowledgment after a streaming cycle of its
\* own, while the other request holds the lock.
C15_Witness ==
    \E r, q \in Requests :
        /\ r # q
        /\ pc[r] = "ack_wait"
        /\ st[r].routed
        /\ st[r].nStop = 1
        /\ lock = q

\* C17: whenever the lock is free the shared engine is not open: every
\* stream_start has had its stream_stop before the lock is released.
C17_FreeLockEngineClosed == lock = "free" => ~engineOpen

\* C18: the feed loop of a streaming transcription ends, and the request
\* that holds the lock gives it up.
C18_FeedLoopTerminates ==
    \A r \in Requests :
        /\ (pc[r] \in {"read", "feed"}) ~> (pc[r] \notin {"read", "feed"})
        /\ (lock = r) ~> (lock # r)

-----------------------------------------------------------------------------
(* Order and content of an injection (C16, C19)                            *)

\* The reply of handle_audio_input with the transcripts is among r's
\* replies.
Replied(r) ==
    \E i \in 1..Len(st[r].replies) : "skills_recv" \in DOMAIN st[r].replies[i]

\* C16: in an audio-input request each step has the one before it behind
\* it: a transcript only after the decode, a context or a failed context
\* extraction only after the transcript, the publication only with
\* transcript and context, at most once, and the reply with the
\* transcripts only after the publish has returned.
C16_StepsInOrder ==
    \A r \in Requests :
        msg[r].kind = "audio_input" =>
            /\ (st[r].trans # "unset" => st[r].sttCalls = 1)
            /\ (pc[r] \in {"route", "lock_wait", "start", "read", "feed",
                           "stop", "batch"} =>
                    /\ st[r].sttCalls = 1
                    /\ st[r].trans = "unset")
            /\ ((st[r].pdata # "unset" \/ st[r].ctxRaised) =>
                    st[r].trans # "unset")
            /\ (pc[r] \in {"emit", "ack_wait"} \/ st[r].emitted > 0 =>
                    /\ st[r].trans # "unset"
                    /\ st[r].pdata # "unset")
            /\ (pc[r] = "emit" => st[r].emitted = 0)
            /\ st[r].emitted <= 1
            /\ (st[r].handled # "unset" => st[r].emitted = 1)
            /\ (pc[r] = "ai_reply" \/ Replied(r) =>
                    /\ st[r].emitted = 1
                    /\ st[r].handled # "unset")

\* An audio-input request has replied with its transcripts after a
\* streaming transcription.
C16_Witness ==
    \E r \in Requests :
        /\ msg[r].kind = "audio_input"
        /\ pc[r] = "done"
        /\ Replied(r)
        /\ st[r].routed
        /\ st[r].handled = "acked"

\* C19: an utterance handed to the publish protocol by handle_audio_input
\* or handle_input_from_klat has transcripts that are a non-empty list of
\* strings: the engine's, or the text supplied with the chat input.
C19_PublishedTranscriptsNonEmpty ==
    \A r \in Requests :
        (/\ msg[r].kind \in {"audio_input", "klat"}
         /\ (pc[r] = "ack_wait" \/ st[r].emitted > 0)) =>
            st[r].trans \in {"ok", "shout"}

-----------------------------------------------------------------------------
(* The routing while main() starts up (C20)                                *)

\* C20: with an engine that can stream, no file transcription is at the
\* capture loop's own engine (loop.consumer.transcribe).
C20_StreamingNeverBatch ==
    canStream => \A r \in Requests : pc[r] # "batch"

====
